---- MODULE Spec2Model ----
(***************************************************************************)
(* A model of deface's temporal detection-reliability pipeline             *)
(* (src/deface/deface.py): the ThresholdTimeline, the box overlap test,    *)
(* the one-pass clustering unionize_overlapping_dets, the representative   *)
(* computation get_union_rep, the history filter filter_by_dets_history    *)
(* and the per-frame loop of video_detect.                                 *)
(*                                                                         *)
(* A detection is the tuple <<x1, y1, x2, y2, score>> (Python det[0..4]).  *)
(* Coordinates are integers; scores and thresholds are integers in         *)
(* hundredths (50 stands for 0.5).  A Python dict is a sequence of         *)
(* <<key, value>> pairs with distinct keys, in insertion order.  A time in *)
(* seconds is the integer numerator of a fraction over SecDen.             *)
(***************************************************************************)
EXTENDS Integers, Sequences, FiniteSets, Bags, TLC

VARIABLES
    pc,                     \* position of the running program
    thresholds_by_sec,      \* the {second: threshold} mapping handed over
    default_threshold,      \* the default threshold handed over
    fps,                    \* the frame rate handed over
    thresholds_timeline,    \* the ThresholdTimeline object
    frame_idx,              \* video_detect: frames processed; timeline: the index queried
    current_threshold,      \* the last value threshold_for_frame returned
    consistency_threshold,  \* the consistency_threshold of the run or call
    raw_dets,               \* the detections of the last frame or call
    given_history,          \* the history the last filter call was given
    reliables,              \* the detections the last filter call found reliable
    reliable_dets,          \* the result the last filter call returned
    detections_history,     \* the history the last filter call returned
    generations_appended,   \* how many Generations the run has appended so far
    generation_log,         \* every Generation the run has appended, oldest first
    unions,                 \* clusters: unionize's output, get_union_rep's input
    union_reps,             \* get_union_rep's output
    overlaps                \* what the last has_overlap call returned

vars == <<pc, thresholds_by_sec, default_threshold, fps, thresholds_timeline,
          frame_idx, current_threshold, consistency_threshold, raw_dets,
          given_history, reliables, reliable_dets, detections_history,
          generations_appended, generation_log, unions, union_reps, overlaps>>

timeline_vars == <<thresholds_by_sec, default_threshold, fps, thresholds_timeline,
                   frame_idx, current_threshold>>

filter_vars == <<consistency_threshold, raw_dets, given_history, reliables,
                 reliable_dets, detections_history, generations_appended,
                 generation_log>>

union_vars == <<unions, union_reps, overlaps>>

----------------------------------------------------------------------------
(* Bounds and program constants *)

\* video_detect keeps detections_history[-5:]
HistoryWindow == 5

\* frames a modelled run of video_detect processes
MaxFrames == 7

\* times are multiples of 1/SecDen seconds
SecDen == 2

\* timeline inputs: pairs in a mapping, largest time numerator, largest fps,
\* largest queried frame index
MaxPairs == 2
MaxSec == 4
MaxFps == 2
MaxQuery == 4

\* clustering inputs: detections in a call, largest x coordinate, highest row
MaxDets == 3
MaxX == 3
MaxRow == 1

\* representative inputs: members of a union
MaxUnion == 3

\* filter inputs: Generations in the history handed over
MaxHist == 4

\* overlap inputs: largest coordinate of a box
MaxGrid == 3

----------------------------------------------------------------------------
(* Sequence helpers *)

Max2(a, b) == IF a >= b THEN a ELSE b
Min2(a, b) == IF a <= b THEN a ELSE b

RECURSIVE SeqMax(_)
SeqMax(s) == IF Len(s) = 1 THEN s[1] ELSE Max2(s[1], SeqMax(Tail(s)))

RECURSIVE SeqMin(_)
SeqMin(s) == IF Len(s) = 1 THEN s[1] ELSE Min2(s[1], SeqMin(Tail(s)))

RECURSIVE SeqSum(_)
SeqSum(s) == IF s = <<>> THEN 0 ELSE s[1] + SeqSum(Tail(s))

\* a slice that keeps everything
LastN_KeepsAll(s, n) == s

\* a slice that is one element short (s[-(n-1):])
LastN_OneShort(s, n) == IF Len(s) <= n - 1 THEN s ELSE SubSeq(s, Len(s) - n + 2, Len(s))

\* a slice that keeps the oldest n elements (s[:n]), so the newest one leaves
LastN_KeepsOldest(s, n) == IF Len(s) <= n THEN s ELSE SubSeq(s, 1, n)

\* Python's s[-n:]
LastN(s, n) == IF Len(s) <= n THEN s ELSE SubSeq(s, Len(s) - n + 1, Len(s))

\* sequences over S of length lo..hi
SeqsOf(S, lo, hi) == UNION {[1..n -> S] : n \in lo..hi}

----------------------------------------------------------------------------
(* ThresholdTimeline *)

\* Python's round() of the fraction n/d (d > 0): nearest integer, a tie to even
round(n, d) ==
    LET q == n \div d
        r == n % d
    IN  IF 2 * r < d THEN q
        ELSE IF 2 * r > d THEN q + 1
        ELSE IF q % 2 = 0 THEN q ELSE q + 1

\* key in dict
DictHas(dict, key) == \E i \in 1..Len(dict) : dict[i][1] = key

\* dict[key] = value: an existing key keeps its place, a new key goes last
DictSet(dict, key, value) ==
    IF DictHas(dict, key)
    THEN [i \in 1..Len(dict) |->
            IF dict[i][1] = key THEN <<key, value>> ELSE dict[i]]
    ELSE Append(dict, <<key, value>>)

\* the loop of __init__ over thresholds_by_sec.items()
RECURSIVE PopulateThresholds(_, _, _)
PopulateThresholds(thresholds, items, rate) ==
    IF items = <<>> THEN thresholds
    ELSE LET start_time == Head(items)[1]
             thresh     == Head(items)[2]
             idx        == round(rate * start_time, SecDen)
         IN  PopulateThresholds(DictSet(thresholds, idx, thresh), Tail(items), rate)

\* a constructor that forgets to key frame 0
ThresholdTimeline_NoFrameZero(by_sec, default, rate) ==
    [thresholds        |-> PopulateThresholds(<<>>, by_sec, rate),
     default_threshold |-> default,
     fps               |-> rate]

\* ThresholdTimeline.__init__
ThresholdTimeline(by_sec, default, rate) ==
    LET first == IF ~DictHas(by_sec, 0) THEN << <<0, default>> >> ELSE <<>>
    IN  [thresholds        |-> PopulateThresholds(first, by_sec, rate),
         default_threshold |-> default,
         fps               |-> rate]

\* the loop of threshold_for_frame: stops at the first key above idx
RECURSIVE ThresholdScan(_, _, _)
ThresholdScan(items, idx, threshold) ==
    IF items = <<>> THEN threshold
    ELSE IF idx >= Head(items)[1]
         THEN ThresholdScan(Tail(items), idx, Head(items)[2])
         ELSE threshold

\* ThresholdTimeline.threshold_for_frame
threshold_for_frame(self, idx) ==
    ThresholdScan(self.thresholds, idx, self.default_threshold)

----------------------------------------------------------------------------
(* Box geometry *)

\* an overlap test with strict comparisons: boxes that only touch do not overlap
has_overlap_Strict(det, other) ==
    LET h_overlaps == (det[1] < other[3]) /\ (det[3] > other[1])
        v_overlaps == (det[2] < other[4]) /\ (det[4] > other[2])
    IN  h_overlaps /\ v_overlaps

has_overlap(det, other) ==
    LET h_overlaps == (det[1] <= other[3]) /\ (det[3] >= other[1])
        v_overlaps == (det[2] <= other[4]) /\ (det[4] >= other[2])
    IN  h_overlaps /\ v_overlaps

has_overlap_with_union(det, union) ==
    \E i \in 1..Len(union) : has_overlap(det, union[i])

\* the sort key (x[0], x[1]) compared as Python compares tuples
KeyLess(a, b) == (a[1] < b[1]) \/ (a[1] = b[1] /\ a[2] < b[2])

\* one step of a stable sort: det goes behind every element whose key is not greater
RECURSIVE InsertSorted(_, _)
InsertSorted(det, s) ==
    IF s = <<>> THEN <<det>>
    ELSE IF KeyLess(det, Head(s)) THEN <<det>> \o s
    ELSE <<Head(s)>> \o InsertSorted(det, Tail(s))

\* sorted(dets, key=lambda x: (x[0], x[1])): ascending and stable
RECURSIVE sorted(_)
sorted(dets) ==
    IF dets = <<>> THEN <<>>
    ELSE InsertSorted(dets[Len(dets)], sorted(SubSeq(dets, 1, Len(dets) - 1)))

\* a scan in which a detection joins the last union when it overlaps any union so far
RECURSIVE ScanUnions_JoinsOnAnyOverlap(_, _)
ScanUnions_JoinsOnAnyOverlap(us, rest) ==
    IF rest = <<>> THEN us
    ELSE LET det == Head(rest)
             n   == Len(us)
         IN  IF \E u \in 1..n : has_overlap_with_union(det, us[u])
             THEN ScanUnions_JoinsOnAnyOverlap([us EXCEPT ![n] = Append(us[n], det)],
                                               Tail(rest))
             ELSE ScanUnions_JoinsOnAnyOverlap(Append(us, <<det>>), Tail(rest))

\* the scan of unionize_overlapping_dets: a detection joins the last union or opens one
RECURSIVE ScanUnions(_, _)
ScanUnions(us, rest) ==
    IF rest = <<>> THEN us
    ELSE LET det == Head(rest)
             n   == Len(us)
         IN  IF has_overlap_with_union(det, us[n])
             THEN ScanUnions([us EXCEPT ![n] = Append(us[n], det)], Tail(rest))
             ELSE ScanUnions(Append(us, <<det>>), Tail(rest))

\* a clustering that scans the detections in input order, without sorting them
unionize_overlapping_dets_Unsorted(dets) ==
    ScanUnions(<< <<dets[1]>> >>, Tail(dets))

\* a clustering whose scan starts one detection too late (ordered_dets[2:])
unionize_overlapping_dets_SkipsOne(dets) ==
    LET ordered_dets == sorted(dets)
    IN  ScanUnions(<< <<ordered_dets[1]>> >>, SubSeq(ordered_dets, 3, Len(ordered_dets)))

\* unionize_overlapping_dets, for a non-empty dets (ordered_dets[0] raises on an empty one)
unionize_overlapping_dets(dets) ==
    LET ordered_dets == sorted(dets)
    IN  ScanUnions(<< <<ordered_dets[1]>> >>, Tail(ordered_dets))

----------------------------------------------------------------------------
(* Representatives *)

\* [f(x) for x in union]
Column(union, j) == [i \in 1..Len(union) |-> union[i][j]]

\* a centroid rounded half up instead of half to even
rint_half_HalfUp(a, b) == (a + b + 1) \div 2

\* np.rint((a + b) / 2): the nearest integer, a tie to the even one
rint_half(a, b) == round(a + b, 2)

\* the representative of a union of two or more members (the else branch)
MultiRep(union) ==
    LET x1s == Column(union, 1)
        y1s == Column(union, 2)
        x2s == Column(union, 3)
        y2s == Column(union, 4)
        n   == Len(union)
        widths  == [i \in 1..n |-> x2s[i] - x1s[i]]
        heights == [i \in 1..n |-> y2s[i] - y1s[i]]
        areas   == [i \in 1..n |-> widths[i] * heights[i]]
        max_w   == SeqMax(widths)
        max_h   == SeqMax(heights)
        x_centroids == [i \in 1..n |-> rint_half(x1s[i], x2s[i])]
        y_centroids == [i \in 1..n |-> rint_half(y1s[i], y2s[i])]
        \* np.average(c, weights=areas) is the fraction NX / D (NY / D)
        D  == SeqSum(areas)
        NX == SeqSum([i \in 1..n |-> x_centroids[i] * areas[i]])
        NY == SeqSum([i \in 1..n |-> y_centroids[i] * areas[i]])
        \* np.floor(NX/D - max_w/2) and np.floor(NX/D + max_w/2), likewise for y
        union_x1 == Max2(SeqMin(x1s), (2 * NX - max_w * D) \div (2 * D))
        union_y1 == Max2(SeqMin(y1s), (2 * NY - max_h * D) \div (2 * D))
        union_x2 == Min2(SeqMax(x2s), (2 * NX + max_w * D) \div (2 * D))
        union_y2 == Min2(SeqMax(y2s), (2 * NY + max_h * D) \div (2 * D))
        union_score == SeqMax(Column(union, 5))
    IN  <<union_x1, union_y1, union_x2, union_y2, union_score>>

\* a representative that takes the score of the first member instead of the largest
MultiRep_FirstScore(union) ==
    LET rep == MultiRep(union)
    IN  <<rep[1], rep[2], rep[3], rep[4], union[1][5]>>

\* the else branch of get_union_rep
UnionRep(union) == MultiRep(union)

\* get_union_rep: an empty union is skipped, a single member is its own representative
RECURSIVE get_union_rep(_)
get_union_rep(us) ==
    IF us = <<>> THEN <<>>
    ELSE LET union == Head(us)
             rest  == get_union_rep(Tail(us))
         IN  IF union = <<>> THEN rest
             ELSE IF Len(union) = 1 THEN <<union[1]>> \o rest
             ELSE <<UnionRep(union)>> \o rest

----------------------------------------------------------------------------
(* The history filter *)

\* dets.any(): some element of the array is non-zero
DetsAny(dets) == \E i \in 1..Len(dets) : \E j \in 1..5 : dets[i][j] # 0

\* a loop without the break: every overlapping union of the generation counts
RECURSIVE GenerationOverlaps_NoBreak(_, _)
GenerationOverlaps_NoBreak(det, generation) ==
    IF generation = <<>> THEN 0
    ELSE (IF has_overlap_with_union(det, Head(generation)) THEN 1 ELSE 0)
         + GenerationOverlaps_NoBreak(det, Tail(generation))

\* the loop over a generation's unions, left at the first overlapping union
RECURSIVE GenerationOverlaps(_, _)
GenerationOverlaps(det, generation) ==
    IF generation = <<>> THEN 0
    ELSE IF has_overlap_with_union(det, Head(generation)) THEN 1
    ELSE GenerationOverlaps(det, Tail(generation))

\* overlap_counter after the loop over the history
RECURSIVE overlap_counter(_, _)
overlap_counter(det, history) ==
    IF history = <<>> THEN 0
    ELSE GenerationOverlaps(det, Head(history)) + overlap_counter(det, Tail(history))

\* a comparison that asks for more overlaps than consistency_threshold
RECURSIVE Reliables_Strict(_, _, _)
Reliables_Strict(dets, history, ct) ==
    IF dets = <<>> THEN <<>>
    ELSE LET det == Head(dets)
         IN  (IF overlap_counter(det, history) > ct THEN <<det>> ELSE <<>>)
             \o Reliables_Strict(Tail(dets), history, ct)

\* the list reliables after the loop over dets
RECURSIVE Reliables(_, _, _)
Reliables(dets, history, ct) ==
    IF dets = <<>> THEN <<>>
    ELSE LET det == Head(dets)
         IN  (IF overlap_counter(det, history) >= ct THEN <<det>> ELSE <<>>)
             \o Reliables(Tail(dets), history, ct)

\* a filter that appends a Generation for a frame without detections too
filter_by_dets_history_AppendsAlways(dets, history, ct) ==
    IF DetsAny(dets)
    THEN LET rel         == Reliables(dets, history, ct)
             new_history == Append(history, unionize_overlapping_dets(dets))
         IN  [rep_dets  |-> IF rel # <<>>
                            THEN get_union_rep(unionize_overlapping_dets(rel))
                            ELSE <<>>,
              history   |-> new_history,
              reliables |-> rel]
    ELSE [rep_dets |-> <<>>, history |-> Append(history, <<>>), reliables |-> <<>>]

\* a filter that appends the new Generation only when some detection is reliable
filter_by_dets_history_AppendsIfReliable(dets, history, ct) ==
    IF DetsAny(dets)
    THEN LET rel        == Reliables(dets, history, ct)
             new_unions == unionize_overlapping_dets(dets)
         IN  IF rel # <<>>
             THEN [rep_dets  |-> get_union_rep(unionize_overlapping_dets(rel)),
                   history   |-> Append(history, new_unions),
                   reliables |-> rel]
             ELSE [rep_dets |-> <<>>, history |-> history, reliables |-> rel]
    ELSE [rep_dets |-> <<>>, history |-> history, reliables |-> <<>>]

\* filter_by_dets_history: the pair it returns, and the reliables it found on the way
filter_by_dets_history(dets, history, ct) ==
    IF DetsAny(dets)
    THEN LET rel         == Reliables(dets, history, ct)
             new_unions  == unionize_overlapping_dets(dets)
             new_history == Append(history, new_unions)
         IN  IF rel # <<>>
             THEN [rep_dets  |-> get_union_rep(unionize_overlapping_dets(rel)),
                   history   |-> new_history,
                   reliables |-> rel]
             ELSE [rep_dets |-> <<>>, history |-> new_history, reliables |-> rel]
    ELSE [rep_dets |-> <<>>, history |-> history, reliables |-> <<>>]

----------------------------------------------------------------------------
(* The values of the variables a specification does not use *)

NoTimeline == [thresholds |-> <<>>, default_threshold |-> 0, fps |-> 0]

TimelineIdle ==
    /\ thresholds_by_sec = <<>>
    /\ default_threshold = 0
    /\ fps = 0
    /\ thresholds_timeline = NoTimeline
    /\ frame_idx = 0
    /\ current_threshold = 0

FilterIdle ==
    /\ consistency_threshold = 0
    /\ raw_dets = <<>>
    /\ given_history = <<>>
    /\ reliables = <<>>
    /\ reliable_dets = <<>>
    /\ detections_history = <<>>
    /\ generations_appended = 0
    /\ generation_log = <<>>

UnionIdle ==
    /\ unions = <<>>
    /\ union_reps = <<>>
    /\ overlaps = FALSE

----------------------------------------------------------------------------
(* video_detect: the frame loop *)

\* the boxes the modelled detector reports: BoxA and BoxB are apart, BoxC touches both
BoxA == <<0, 0, 2, 2, 50>>
BoxB == <<4, 0, 6, 2, 25>>
BoxC == <<2, 1, 4, 3, 25>>
\* a box apart from the three
BoxD == <<8, 8, 9, 9, 50>>

\* what centerface(frame, threshold) may return for a frame
FrameDets == { <<>>, <<BoxA>>, <<BoxB>>, <<BoxC, BoxA>> }

\* the schedule a modelled run is started with: {1: 0.2, 3: 0.6} for SecDen = 2
RunSchedule == << <<2, 20>>, <<6, 60>> >>

\* the values --consistency_threshold accepts
ConsistencyChoices == 0..5

Init ==
    /\ pc = "start"
    /\ thresholds_by_sec = RunSchedule
    /\ default_threshold = 50
    /\ fps = 2
    /\ thresholds_timeline = NoTimeline
    /\ frame_idx = 0
    /\ current_threshold = 0
    /\ consistency_threshold \in ConsistencyChoices
    /\ raw_dets = <<>>
    /\ given_history = <<>>
    /\ reliables = <<>>
    /\ reliable_dets = <<>>
    /\ detections_history = <<>>
    /\ generations_appended = 0
    /\ generation_log = <<>>
    /\ UnionIdle

\* lines 281-282: the timeline is built and the history starts empty
VideoStart ==
    /\ pc = "start"
    /\ pc' = "loop"
    /\ thresholds_timeline' = ThresholdTimeline(thresholds_by_sec, default_threshold, fps)
    /\ detections_history' = <<>>
    /\ UNCHANGED <<thresholds_by_sec, default_threshold, fps, frame_idx, current_threshold,
                   consistency_threshold, raw_dets, given_history, reliables,
                   reliable_dets, generations_appended, generation_log, unions,
                   union_reps, overlaps>>

\* lines 283-291: one iteration of the loop over the frames
VideoFrame ==
    /\ pc = "loop"
    /\ frame_idx < MaxFrames
    /\ \E dets \in FrameDets :
         LET given == LastN(detections_history, HistoryWindow)
             r     == filter_by_dets_history(dets, given, consistency_threshold)
         IN  /\ current_threshold' = threshold_for_frame(thresholds_timeline, frame_idx)
             /\ raw_dets' = dets
             /\ given_history' = given
             /\ reliables' = r.reliables
             /\ reliable_dets' = r.rep_dets
             /\ detections_history' = r.history
             /\ generations_appended' =
                    generations_appended + (Len(r.history) - Len(given))
             /\ generation_log' =
                    generation_log \o SubSeq(r.history, Len(given) + 1, Len(r.history))
    /\ frame_idx' = frame_idx + 1
    /\ UNCHANGED <<pc, thresholds_by_sec, default_threshold, fps, thresholds_timeline,
                   consistency_threshold, unions, union_reps, overlaps>>

Next == VideoStart \/ VideoFrame

Spec == Init /\ [][Next]_vars

----------------------------------------------------------------------------
(* ThresholdTimeline on its own: built from any mapping, then queried *)

ThresholdValues == {20, 60}

\* the mappings handed over: up to MaxPairs items with distinct keys, in any order
ScheduleInputs ==
    { m \in SeqsOf((0..MaxSec) \X ThresholdValues, 0, MaxPairs) :
        \A i, j \in 1..Len(m) : i # j => m[i][1] # m[j][1] }

InitTimeline ==
    /\ pc = "tl_start"
    /\ thresholds_by_sec \in ScheduleInputs
    /\ default_threshold = 50
    /\ fps \in 1..MaxFps
    /\ thresholds_timeline = NoTimeline
    /\ frame_idx = 0
    /\ current_threshold = 0
    /\ FilterIdle
    /\ UnionIdle

TimelineConstruct ==
    /\ pc = "tl_start"
    /\ pc' = "tl_built"
    /\ thresholds_timeline' = ThresholdTimeline(thresholds_by_sec, default_threshold, fps)
    /\ UNCHANGED <<thresholds_by_sec, default_threshold, fps, frame_idx, current_threshold>>
    /\ UNCHANGED filter_vars
    /\ UNCHANGED union_vars

TimelineQuery ==
    /\ pc \in {"tl_built", "tl_asked"}
    /\ pc' = "tl_asked"
    /\ \E idx \in 0..MaxQuery :
         /\ frame_idx' = idx
         /\ current_threshold' = threshold_for_frame(thresholds_timeline, idx)
    /\ UNCHANGED <<thresholds_by_sec, default_threshold, fps, thresholds_timeline>>
    /\ UNCHANGED filter_vars
    /\ UNCHANGED union_vars

NextTimeline == TimelineConstruct \/ TimelineQuery

SpecTimeline == InitTimeline /\ [][NextTimeline]_vars

----------------------------------------------------------------------------
(* unionize_overlapping_dets on its own *)

\* well-formed boxes: x1 < x2 within 0..MaxX, and a row r spanning y in 2r..2r+1
GridDets ==
    { <<x[1], 2 * r, x[2], 2 * r + 1, 50>> :
        x \in { p \in (0..MaxX) \X (0..MaxX) : p[1] < p[2] }, r \in 0..MaxRow }

InitUnion ==
    /\ pc = "un_start"
    /\ raw_dets \in SeqsOf(GridDets, 1, MaxDets)
    /\ consistency_threshold = 0
    /\ given_history = <<>>
    /\ reliables = <<>>
    /\ reliable_dets = <<>>
    /\ detections_history = <<>>
    /\ generations_appended = 0
    /\ generation_log = <<>>
    /\ TimelineIdle
    /\ UnionIdle

Unionize ==
    /\ pc = "un_start"
    /\ pc' = "un_done"
    /\ unions' = unionize_overlapping_dets(raw_dets)
    /\ UNCHANGED <<union_reps, overlaps>>
    /\ UNCHANGED filter_vars
    /\ UNCHANGED timeline_vars

NextUnion == Unionize

SpecUnion == InitUnion /\ [][NextUnion]_vars

----------------------------------------------------------------------------
(* get_union_rep on its own *)

\* well-formed boxes: an x-span whose centre 0.5, 1, 1.5 or 2.5 rounds to 0, 1, 2
\* or 2, and a low shape (y 0..1, score 0.25) or a tall one (y 1..3, score 0.5)
RepSpans == { <<0, 1>>, <<0, 2>>, <<1, 2>>, <<2, 3>> }
RepShapes == { <<0, 1, 25>>, <<1, 3, 50>> }
RepDets ==
    { <<x[1], sh[1], x[2], sh[2], sh[3]>> : x \in RepSpans, sh \in RepShapes }

\* the unions of test_get_union_rep
TestUnions1 == << << <<100, 100, 200, 200, 50>>, <<150, 150, 190, 190, 25>> >>,
                  << <<500, 500, 700, 700, 25>> >> >>
TestUnions2 == << << <<100, 100, 200, 200, 50>> >>,
                  << <<250, 250, 290, 290, 25>> >>,
                  << <<500, 500, 700, 700, 25>> >> >>
TestUnions3 == << << <<100, 100, 200, 200, 50>>, <<150, 150, 190, 190, 25>>,
                     <<500, 500, 700, 700, 25>> >> >>

\* the lists of unions handed over with the union u: u alone, behind an empty union
\* or before a single-member union
RepForms(u) == { <<u>>, << <<>>, u >>, << u, << <<0, 0, 1, 1, 25>> >> >> }

\* a union of 1..MaxUnion members in one of the forms, or the unions of the tests
InitRep ==
    /\ pc = "rep_start"
    /\ \/ \E u \in SeqsOf(RepDets, 1, MaxUnion) : unions \in RepForms(u)
       \/ unions \in { TestUnions1, TestUnions2, TestUnions3 }
    /\ union_reps = <<>>
    /\ overlaps = FALSE
    /\ TimelineIdle
    /\ FilterIdle

Represent ==
    /\ pc = "rep_start"
    /\ pc' = "rep_done"
    /\ union_reps' = get_union_rep(unions)
    /\ UNCHANGED <<unions, overlaps>>
    /\ UNCHANGED filter_vars
    /\ UNCHANGED timeline_vars

NextRep == Represent

SpecRep == InitRep /\ [][NextRep]_vars

----------------------------------------------------------------------------
(* filter_by_dets_history on its own *)

\* the Generations a history handed over is made of: a Generation holding an empty
\* union (as in test_filter_by_dets_history), one union, two unions that BoxC both
\* overlaps, a union whose second member alone reaches BoxB, a far one
FilterGenerations ==
    { << <<>> >>,
      << <<BoxA>> >>,
      << <<BoxA>>, <<BoxB>> >>,
      << <<BoxA, BoxC>> >>,
      << <<BoxD>> >> }

\* the detections handed over
FilterDets == { <<>>, <<BoxA>>, <<BoxB>>, <<BoxC>>, <<BoxC, BoxB>>, <<BoxD, BoxA>> }

InitFilter ==
    /\ pc = "flt_start"
    /\ consistency_threshold \in 0..(MaxHist + 1)
    /\ raw_dets \in FilterDets
    /\ given_history \in SeqsOf(FilterGenerations, 0, MaxHist)
    /\ reliables = <<>>
    /\ reliable_dets = <<>>
    /\ detections_history = <<>>
    /\ generations_appended = 0
    /\ generation_log = <<>>
    /\ TimelineIdle
    /\ UnionIdle

FilterCall ==
    /\ pc = "flt_start"
    /\ pc' = "flt_done"
    /\ LET r == filter_by_dets_history(raw_dets, given_history, consistency_threshold)
       IN  /\ reliables' = r.reliables
           /\ reliable_dets' = r.rep_dets
           /\ detections_history' = r.history
           /\ generations_appended' = Len(r.history) - Len(given_history)
           /\ generation_log' = SubSeq(r.history, Len(given_history) + 1, Len(r.history))
    /\ UNCHANGED <<consistency_threshold, raw_dets, given_history>>
    /\ UNCHANGED timeline_vars
    /\ UNCHANGED union_vars

NextFilter == FilterCall

SpecFilter == InitFilter /\ [][NextFilter]_vars

----------------------------------------------------------------------------
(* has_overlap on its own *)

\* the spans lo < hi within 0..MaxGrid
GridSpans == { p \in (0..MaxGrid) \X (0..MaxGrid) : p[1] < p[2] }

\* every well-formed box with corners on the grid
OverlapBoxes == { <<x[1], y[1], x[2], y[2], 50>> : x \in GridSpans, y \in GridSpans }

\* raw_dets holds the two arguments of the call: det, then other
InitOverlap ==
    /\ pc = "ov_start"
    /\ raw_dets \in OverlapBoxes \X OverlapBoxes
    /\ consistency_threshold = 0
    /\ given_history = <<>>
    /\ reliables = <<>>
    /\ reliable_dets = <<>>
    /\ detections_history = <<>>
    /\ generations_appended = 0
    /\ generation_log = <<>>
    /\ TimelineIdle
    /\ UnionIdle

HasOverlapCall ==
    /\ pc = "ov_start"
    /\ pc' = "ov_done"
    /\ overlaps' = has_overlap(raw_dets[1], raw_dets[2])
    /\ UNCHANGED <<unions, union_reps>>
    /\ UNCHANGED filter_vars
    /\ UNCHANGED timeline_vars

NextOverlap == HasOverlapCall

SpecOverlap == InitOverlap /\ [][NextOverlap]_vars

----------------------------------------------------------------------------
(* Properties of the frame loop (Spec) *)

C7_WarmUp ==
    pc = "loop" =>
        /\ reliable_dets # <<>> =>
               /\ raw_dets # <<>>
               /\ generations_appended - 1 >= consistency_threshold
        /\ frame_idx <= consistency_threshold => reliable_dets = <<>>
        /\ (consistency_threshold = 0 /\ raw_dets # <<>>) => reliable_dets # <<>>

\* at a threshold of 2 the third frame is the first to yield a result
C7_Witness ==
    /\ pc = "loop"
    /\ consistency_threshold = 2
    /\ frame_idx = 3
    /\ generations_appended = 3
    /\ reliable_dets # <<>>

----------------------------------------------------------------------------
(* Properties of the ThresholdTimeline (SpecTimeline) *)

TimelineBuilt == pc \in {"tl_built", "tl_asked"}

\* the keys of a dict and the value stored under a key
DictKeys(dict) == { dict[i][1] : i \in 1..Len(dict) }
DictGet(dict, key) == dict[CHOOSE i \in 1..Len(dict) : dict[i][1] = key][2]

\* the integer nearest to n/d, the even one of two equally near
NearestFrame(n, d) ==
    CHOOSE k \in 0..(n + 1) :
        LET dist == IF n >= k * d THEN n - k * d ELSE k * d - n
        IN  (2 * dist < d) \/ (2 * dist = d /\ k % 2 = 0)

\* the frame the i-th supplied pair maps to
PairFrame(i) == NearestFrame(fps * thresholds_by_sec[i][1], SecDen)

\* the supplied pairs that map to frame f
PairsAt(f) == { i \in 1..Len(thresholds_by_sec) : PairFrame(i) = f }

\* C2: threshold_for_frame(i) returns the value stored for the greatest keyed
\* frame index that is <= i, whatever order the mapping's entries came in.
C2_GreatestKeyedFrame ==
    pc = "tl_asked" =>
        \E f \in DictKeys(thresholds_timeline.thresholds) :
            /\ f <= frame_idx
            /\ \A g \in DictKeys(thresholds_timeline.thresholds) :
                   g <= frame_idx => g <= f
            /\ current_threshold = DictGet(thresholds_timeline.thresholds, f)

\* C10 as stated: the keyed frames are the frames of the supplied pairs, every
\* pair's frame carrying that pair's threshold, plus frame 0 with the default
\* when no pair maps to it; an empty mapping answers the default everywhere.
C10_EveryPairKept ==
    TimelineBuilt =>
        LET th == thresholds_timeline.thresholds
        IN  /\ DictKeys(th) = {0} \cup { PairFrame(i) : i \in 1..Len(thresholds_by_sec) }
            /\ \A i \in 1..Len(thresholds_by_sec) :
                   DictGet(th, PairFrame(i)) = thresholds_by_sec[i][2]
            /\ PairsAt(0) = {} => DictGet(th, 0) = default_threshold
            /\ (thresholds_by_sec = <<>> /\ pc = "tl_asked")
                   => current_threshold = default_threshold

\* C10 amended: the keyed frames are the frames of the supplied pairs plus
\* frame 0; a frame several pairs map to carries the threshold of the last of
\* them, frame 0 carries the default when no pair maps to it, frame 0 is always
\* keyed, and an empty mapping answers the default for every frame index.
C10_KeyedFrames ==
    TimelineBuilt =>
        LET th == thresholds_timeline.thresholds
        IN  /\ DictKeys(th) = {0} \cup { PairFrame(i) : i \in 1..Len(thresholds_by_sec) }
            /\ 0 \in DictKeys(th)
            /\ \A i, j \in 1..Len(th) : i # j => th[i][1] # th[j][1]
            /\ \A f \in DictKeys(th) :
                   IF PairsAt(f) = {}
                   THEN f = 0 /\ DictGet(th, f) = default_threshold
                   ELSE LET last == CHOOSE i \in PairsAt(f) : \A j \in PairsAt(f) : j <= i
                        IN  DictGet(th, f) = thresholds_by_sec[last][2]
            /\ (thresholds_by_sec = <<>> /\ pc = "tl_asked")
                   => current_threshold = default_threshold

\* two supplied pairs with different thresholds map to one frame, no pair sits at second 0
C10_Witness ==
    /\ pc = "tl_asked"
    /\ Len(thresholds_by_sec) = 2
    /\ PairFrame(1) = PairFrame(2)
    /\ thresholds_by_sec[1][2] # thresholds_by_sec[2][2]
    /\ ~DictHas(thresholds_by_sec, 0)
    /\ current_threshold = thresholds_by_sec[2][2]

----------------------------------------------------------------------------
(* Properties of unionize_overlapping_dets (SpecUnion) *)

\* boxes a and b share a point: their closed x-intervals and y-intervals both meet
BoxesMeet(a, b) ==
    /\ ~(a[3] < b[1] \/ b[3] < a[1])
    /\ ~(a[4] < b[2] \/ b[4] < a[2])

\* the pairs of positions of raw_dets whose detections overlap
OverlappingPairs ==
    { p \in (1..Len(raw_dets)) \X (1..Len(raw_dets)) :
        p[1] < p[2] /\ BoxesMeet(raw_dets[p[1]], raw_dets[p[2]]) }

\* detection a is sorted before detection b by its (x1, y1) key
KeyBefore(a, b) == a[1] < b[1] \/ (a[1] = b[1] /\ a[2] < b[2])

\* the detection at position k is sorted between those at positions i and j
SortedBetween(k, i, j) ==
    \/ KeyBefore(raw_dets[i], raw_dets[k]) /\ KeyBefore(raw_dets[k], raw_dets[j])
    \/ KeyBefore(raw_dets[j], raw_dets[k]) /\ KeyBefore(raw_dets[k], raw_dets[i])

\* the one overlapping pair is split in sort order by the third detection
PairSplitByThird ==
    \E p \in OverlappingPairs : \E k \in 1..3 :
        k # p[1] /\ k # p[2] /\ SortedBetween(k, p[1], p[2])

\* C5 as stated: of 3 detections, exactly one overlapping pair gives 2 clusters,
\* none gives 3 and three give 1, whatever the positions and the input order.
C5_ThreeDetections ==
    (pc = "un_done" /\ Len(raw_dets) = 3) =>
        /\ Cardinality(OverlappingPairs) = 1 => Len(unions) = 2
        /\ Cardinality(OverlappingPairs) = 0 => Len(unions) = 3
        /\ Cardinality(OverlappingPairs) = 3 => Len(unions) = 1

\* C5 amended: of 3 detections, no overlapping pair gives 3 clusters and three
\* overlapping pairs give 1; exactly one overlapping pair gives 2 clusters when
\* the two are neighbours in the (x1, y1) sort order, and 3 clusters when the
\* third detection is sorted between them.
C5_ThreeDetectionsSorted ==
    (pc = "un_done" /\ Len(raw_dets) = 3) =>
        /\ (Cardinality(OverlappingPairs) = 1 /\ ~PairSplitByThird) => Len(unions) = 2
        /\ (Cardinality(OverlappingPairs) = 1 /\ PairSplitByThird) => Len(unions) = 3
        /\ Cardinality(OverlappingPairs) = 0 => Len(unions) = 3
        /\ Cardinality(OverlappingPairs) = 3 => Len(unions) = 1

\* three detections, one overlapping pair, split by the third: 3 clusters come back
C5_Witness ==
    /\ pc = "un_done"
    /\ Len(raw_dets) = 3
    /\ Cardinality(OverlappingPairs) = 1
    /\ PairSplitByThird
    /\ Len(unions) = 3

\* how often detection d occurs in the sequence s
RECURSIVE Occurrences(_, _)
Occurrences(d, s) ==
    IF s = <<>> THEN 0
    ELSE (IF Head(s) = d THEN 1 ELSE 0) + Occurrences(d, Tail(s))

\* how often detection d occurs in all the clusters together
RECURSIVE OccurrencesInClusters(_, _)
OccurrencesInClusters(d, us) ==
    IF us = <<>> THEN 0
    ELSE Occurrences(d, Head(us)) + OccurrencesInClusters(d, Tail(us))

ClusterMembers(us) == UNION { { us[i][j] : j \in 1..Len(us[i]) } : i \in 1..Len(us) }

\* C6: the clusters partition the input: no cluster is empty, every input
\* detection occurs in the clusters as often as in the input, and the clusters
\* hold nothing else.
C6_ClustersPartitionInput ==
    pc = "un_done" =>
        /\ \A i \in 1..Len(unions) : unions[i] # <<>>
        /\ \A i \in 1..Len(raw_dets) :
               OccurrencesInClusters(raw_dets[i], unions) = Occurrences(raw_dets[i], raw_dets)
        /\ ClusterMembers(unions) \subseteq { raw_dets[i] : i \in 1..Len(raw_dets) }

\* a detection given twice, and more than one cluster
C6_Witness ==
    /\ pc = "un_done"
    /\ Len(unions) = 2
    /\ \E i, j \in 1..Len(raw_dets) : i # j /\ raw_dets[i] = raw_dets[j]

----------------------------------------------------------------------------
(* Properties of get_union_rep (SpecRep) *)

SetMax(S) == CHOOSE m \in S : \A x \in S : x <= m
SetMin(S) == CHOOSE m \in S : \A x \in S : m <= x

\* the sum of f[i] over the positions 1..n
RECURSIVE SumTo(_, _)
SumTo(f, n) == IF n = 0 THEN 0 ELSE f[n] + SumTo(f, n - 1)

\* c is (a + b) / 2 rounded to the nearest integer, half to even
IsRoundedCentre(c, a, b) ==
    \/ 2 * c = a + b
    \/ (2 * c = a + b + 1 \/ 2 * c = a + b - 1) /\ c % 2 = 0

\* f is the floor of num / den, for den > 0
IsFloor(f, num, den) == f * den <= num /\ num < (f + 1) * den

\* rep is the representative the claim describes for the union u of 2 or more members:
\* with cx = NX / D and cy = NY / D the area-weighted averages of the rounded centroids
ClaimedRep(rep, u) ==
    LET n  == Len(u)
        w  == [i \in 1..n |-> u[i][3] - u[i][1]]
        h  == [i \in 1..n |-> u[i][4] - u[i][2]]
        mw == SetMax({ w[i] : i \in 1..n })
        mh == SetMax({ h[i] : i \in 1..n })
        cs == (SetMin({ u[i][1] : i \in 1..n }) - 1)..(SetMax({ u[i][3] : i \in 1..n }) + 1)
        rs == (SetMin({ u[i][2] : i \in 1..n }) - 1)..(SetMax({ u[i][4] : i \in 1..n }) + 1)
        cx == [i \in 1..n |-> CHOOSE c \in cs : IsRoundedCentre(c, u[i][1], u[i][3])]
        cy == [i \in 1..n |-> CHOOSE c \in rs : IsRoundedCentre(c, u[i][2], u[i][4])]
        D  == SumTo([i \in 1..n |-> w[i] * h[i]], n)
        NX == SumTo([i \in 1..n |-> cx[i] * w[i] * h[i]], n)
        NY == SumTo([i \in 1..n |-> cy[i] * w[i] * h[i]], n)
        fs == -(mw + mh + 1)..(SetMax({ u[i][3] : i \in 1..n } \cup { u[i][4] : i \in 1..n })
                                  + mw + mh + 1)
        lox == CHOOSE f \in fs : IsFloor(f, 2 * NX - mw * D, 2 * D)
        loy == CHOOSE f \in fs : IsFloor(f, 2 * NY - mh * D, 2 * D)
        hix == CHOOSE f \in fs : IsFloor(f, 2 * NX + mw * D, 2 * D)
        hiy == CHOOSE f \in fs : IsFloor(f, 2 * NY + mh * D, 2 * D)
    IN  /\ rep[1] = SetMax({ SetMin({ u[i][1] : i \in 1..n }), lox })
        /\ rep[2] = SetMax({ SetMin({ u[i][2] : i \in 1..n }), loy })
        /\ rep[3] = SetMin({ SetMax({ u[i][3] : i \in 1..n }), hix })
        /\ rep[4] = SetMin({ SetMax({ u[i][4] : i \in 1..n }), hiy })
        /\ rep[5] = SetMax({ u[i][5] : i \in 1..n })

\* the positions of the non-empty unions, and the position in the result of the
\* representative of the union at position i
NonEmptyUnions == { i \in 1..Len(unions) : unions[i] # <<>> }
RepIndex(i) == Cardinality({ j \in NonEmptyUnions : j <= i })

\* C8: get_union_rep returns one representative per non-empty cluster, in cluster
\* order; a single member is returned unchanged, and a cluster of two or more
\* members gives the clamped box around the area-weighted centroid with the
\* largest score; the two clusters of the tests give [102,102,200,200,0.5] and
\* [399,399,599,599,0.5].
C8_Representatives ==
    pc = "rep_done" =>
        /\ Len(union_reps) = Cardinality(NonEmptyUnions)
        /\ \A i \in NonEmptyUnions :
               IF Len(unions[i]) = 1
               THEN union_reps[RepIndex(i)] = unions[i][1]
               ELSE ClaimedRep(union_reps[RepIndex(i)], unions[i])
        /\ unions = TestUnions1 => union_reps[1] = <<102, 102, 200, 200, 50>>
        /\ unions = TestUnions3 => union_reps = << <<399, 399, 599, 599, 50>> >>

\* a union of three members behind an empty union: one representative, not a member
C8_Witness ==
    /\ pc = "rep_done"
    /\ Len(unions) = 2
    /\ unions[1] = <<>>
    /\ Len(unions[2]) = 3
    /\ Len(union_reps) = 1
    /\ \A j \in 1..3 : union_reps[1] # unions[2][j]

\* the orders the members of a union of n members can come in
MemberOrders ==
    [n \in 0..MaxUnion |->
        { f \in [1..n -> 1..n] : \A i, j \in 1..n : i # j => f[i] # f[j] }]

\* C9: the representative of a cluster is the same for every permutation of the
\* cluster's members.
C9_OrderInvariant ==
    pc = "rep_done" =>
        \A i \in NonEmptyUnions :
            \A f \in MemberOrders[Len(unions[i])] :
                get_union_rep(<< [j \in 1..Len(unions[i]) |-> unions[i][f[j]]] >>)
                    = << union_reps[RepIndex(i)] >>

\* a union of three different members with different scores, the first not the largest
C9_Witness ==
    /\ pc = "rep_done"
    /\ Len(unions) = 1
    /\ Len(unions[1]) = 3
    /\ unions[1][1] # unions[1][2] /\ unions[1][2] # unions[1][3]
    /\ unions[1][1] # unions[1][3]
    /\ unions[1][1][5] < unions[1][3][5]
    /\ union_reps[1][5] = unions[1][3][5]

----------------------------------------------------------------------------
(* Properties of filter_by_dets_history (SpecFilter) *)

\* the Generations of the history handed over that hold a cluster with a member
\* overlapping det
OverlappedGenerations(det) ==
    { g \in 1..Len(given_history) :
        \E c \in 1..Len(given_history[g]) :
            \E m \in 1..Len(given_history[g][c]) :
                BoxesMeet(det, given_history[g][c][m]) }

InReliables(det) == \E i \in 1..Len(reliables) : reliables[i] = det

\* C3: a raw detection is reliable exactly when the number of Generations of the
\* history handed over that overlap it, each counted once, is at least
\* consistency_threshold; the result is non-empty exactly when some raw detection
\* is reliable.
C3_ReliableIffCount ==
    (pc = "flt_done" /\ raw_dets # <<>>) =>
        /\ \A i \in 1..Len(raw_dets) :
               InReliables(raw_dets[i])
                   <=> Cardinality(OverlappedGenerations(raw_dets[i])) >= consistency_threshold
        /\ \A i \in 1..Len(reliables) : \E j \in 1..Len(raw_dets) : raw_dets[j] = reliables[i]
        /\ reliable_dets # <<>>
               <=> \E i \in 1..Len(raw_dets) :
                       Cardinality(OverlappedGenerations(raw_dets[i])) >= consistency_threshold

\* BoxC meets two clusters of one Generation and one cluster of another: counted 2,
\* not reliable at a threshold of 3
C3_Witness ==
    /\ pc = "flt_done"
    /\ raw_dets = <<BoxC>>
    /\ given_history = << << <<BoxA>>, <<BoxB>> >>, << <<BoxD>> >>, << <<BoxA>> >> >>
    /\ consistency_threshold = 3
    /\ reliables = <<>>
    /\ reliable_dets = <<>>

\* C4: called without raw detections, the filter returns an empty result and the
\* history it was given, nothing appended, removed or reordered.
C4_EmptyFrameKeepsHistory ==
    (pc = "flt_done" /\ raw_dets = <<>>) =>
        /\ reliable_dets = <<>>
        /\ detections_history = given_history

\* no raw detections, a threshold of 0 and a history of three Generations
C4_Witness ==
    /\ pc = "flt_done"
    /\ raw_dets = <<>>
    /\ consistency_threshold = 0
    /\ Len(given_history) = 3
    /\ detections_history = given_history

----------------------------------------------------------------------------
(* Properties of has_overlap (SpecOverlap) *)

\* the closed intervals lo1..hi1 and lo2..hi2 have a point in common
IntervalsIntersect(lo1, hi1, lo2, hi2) == \E p \in lo1..hi1 : p \in lo2..hi2

\* the boxes are apart on the x axis, or on the y axis
SeparatedOnAnAxis(a, b) ==
    \/ a[3] < b[1] \/ b[3] < a[1]
    \/ a[4] < b[2] \/ b[4] < a[2]

\* one box ends where the other starts, on the x axis or on the y axis
TouchOnly(a, b) ==
    /\ ~SeparatedOnAnAxis(a, b)
    /\ a[3] = b[1] \/ b[3] = a[1] \/ a[4] = b[2] \/ b[4] = a[2]

\* C11: has_overlap is reflexive on well-formed boxes and symmetric, and it is
\* true exactly when the closed x-intervals intersect and the closed y-intervals
\* intersect: boxes separated on either axis never overlap, boxes that only
\* touch along an edge or at a corner do.
C11_ClosedIntervalOverlap ==
    pc = "ov_done" =>
        LET det   == raw_dets[1]
            other == raw_dets[2]
        IN  /\ overlaps <=>
                   /\ IntervalsIntersect(det[1], det[3], other[1], other[3])
                   /\ IntervalsIntersect(det[2], det[4], other[2], other[4])
            /\ overlaps = has_overlap(other, det)
            /\ det = other => overlaps
            /\ SeparatedOnAnAxis(det, other) => ~overlaps
            /\ TouchOnly(det, other) => overlaps

\* two boxes that share a single corner point overlap
C11_Witness ==
    /\ pc = "ov_done"
    /\ raw_dets[1][3] = raw_dets[2][1]
    /\ raw_dets[1][4] = raw_dets[2][2]
    /\ overlaps

----------------------------------------------------------------------------
(* Properties of the Generation the filter appends (SpecFilter) *)

\* C12: a call with a non-empty list of raw detections appends exactly one
\* Generation at the end of the history, the clustering of all raw detections of
\* the frame, reliable or not, also when no detection is reliable and the result
\* is empty; the Generations already in the history keep their content and order.
C12_OneGenerationAppended ==
    (pc = "flt_done" /\ raw_dets # <<>>) =>
        LET n    == Len(given_history)
            last == detections_history[Len(detections_history)]
        IN  /\ Len(detections_history) = n + 1
            /\ SubSeq(detections_history, 1, n) = given_history
            /\ last = unionize_overlapping_dets(raw_dets)
            /\ \A i \in 1..Len(raw_dets) :
                   OccurrencesInClusters(raw_dets[i], last) = Occurrences(raw_dets[i], raw_dets)
            /\ ClusterMembers(last) = { raw_dets[i] : i \in 1..Len(raw_dets) }
            /\ generation_log = <<last>>

\* two detections, neither reliable: the result is empty and the history of three
\* Generations has grown by the Generation holding both
C12_Witness ==
    /\ pc = "flt_done"
    /\ Len(raw_dets) = 2
    /\ reliables = <<>>
    /\ reliable_dets = <<>>
    /\ Len(given_history) = 3
    /\ Len(detections_history) = 4
    /\ Len(detections_history[4]) = 2

----------------------------------------------------------------------------
(* Properties of the consulted window (Spec) *)

\* the Generations appended before the last frame was filtered
LogBefore ==
    IF raw_dets # <<>>
    THEN SubSeq(generation_log, 1, Len(generation_log) - 1)
    ELSE generation_log

\* the positions of LogBefore that are among its 5 most recent
RecentPositions ==
    { g \in 1..Len(LogBefore) : g > Len(LogBefore) - 5 }

\* the recent Generations that hold a detection overlapping det
RecentOverlapping(det) ==
    { g \in RecentPositions :
        \E c \in 1..Len(LogBefore[g]) :
            \E m \in 1..Len(LogBefore[g][c]) : BoxesMeet(det, LogBefore[g][c][m]) }

\* C13: the reliability decision for a frame depends only on the 5 most recently
\* appended Generations (fewer when fewer exist), taken oldest first: the history
\* consulted is exactly those Generations in the order they were appended, and a
\* raw detection is reliable exactly when at least consistency_threshold of them
\* overlap it, so a Generation appended more than 5 non-empty frames earlier never
\* counts and the oldest Generation is the one that leaves the window.
C13_WindowOfFive ==
    (pc = "loop" /\ frame_idx > 0) =>
        LET n     == Len(LogBefore)
            first == IF n > 5 THEN n - 4 ELSE 1
        IN  /\ Len(given_history) = Cardinality(RecentPositions)
            /\ \A i \in 1..Len(given_history) : given_history[i] = LogBefore[first + i - 1]
            /\ \A i \in 1..Len(raw_dets) :
                   InReliables(raw_dets[i]) <=>
                       Cardinality(RecentOverlapping(raw_dets[i])) >= consistency_threshold

\* BoxA was seen in the first frame, five frames with BoxB followed: in the
\* seventh frame BoxA is not reliable at a threshold of 1
C13_Witness ==
    /\ pc = "loop"
    /\ consistency_threshold = 1
    /\ frame_idx = 7
    /\ Len(generation_log) = 7
    /\ generation_log[1] = << <<BoxA>> >>
    /\ raw_dets = <<BoxA>>
    /\ reliables = <<>>

----------------------------------------------------------------------------
(* Properties of a box that every frame reports (Spec) *)

\* every frame processed so far had raw detections, box among them
InEveryFrame(box) ==
    /\ Len(generation_log) = frame_idx
    /\ \A g \in 1..Len(generation_log) : box \in ClusterMembers(generation_log[g])

\* C15: in a run that starts with an empty history and uses a constant
\* consistency_threshold k in 0..5, if every frame's raw detections include the
\* same box, then every frame from the (k+1)-th on yields a non-empty result in
\* which that box is reliable, however many frames follow and whatever else the
\* frames contain.
C15_SteadyBoxIsReported ==
    (pc = "loop" /\ frame_idx > 0) =>
        \A box \in {BoxA, BoxB, BoxC} :
            (InEveryFrame(box) /\ frame_idx >= consistency_threshold + 1) =>
                /\ reliable_dets # <<>>
                /\ InReliables(box)

\* at a threshold of 5 the seventh frame, each frame so far holding BoxA and some
\* also BoxC, yields a result
C15_Witness ==
    /\ pc = "loop"
    /\ consistency_threshold = 5
    /\ frame_idx = 7
    /\ InEveryFrame(BoxA)
    /\ ~InEveryFrame(BoxC)
    /\ raw_dets = <<BoxC, BoxA>>
    /\ reliable_dets # <<>>

----------------------------------------------------------------------------
(* Properties of the clusters' connectivity (SpecUnion) *)

\* the positions of cluster reached from the positions in S by chains of
\* overlapping members
RECURSIVE ChainReach(_, _)
ChainReach(cluster, S) ==
    LET T == S \cup { j \in 1..Len(cluster) :
                        \E i \in S : BoxesMeet(cluster[i], cluster[j]) }
    IN  IF T = S THEN S ELSE ChainReach(cluster, T)

\* C14: every cluster is connected through pairwise overlap: from any member a
\* chain of members of the same cluster, each overlapping the next, leads to any
\* other member (the members need not all overlap each other).
C14_ClustersConnected ==
    pc = "un_done" =>
        \A c \in 1..Len(unions) :
            \A i \in 1..Len(unions[c]) :
                ChainReach(unions[c], {i}) = 1..Len(unions[c])

\* a cluster of three in which two members do not overlap each other
C14_Witness ==
    /\ pc = "un_done"
    /\ \E c \in 1..Len(unions) :
         /\ Len(unions[c]) = 3
         /\ \E i, j \in 1..3 : ~BoxesMeet(unions[c][i], unions[c][j])

----------------------------------------------------------------------------
(* Properties of the representative's extent (SpecRep) *)

\* the union is a cluster as unionize_overlapping_dets returns it
IsCluster(u) == u # <<>> /\ unionize_overlapping_dets(u) = <<u>>

\* C16: for every cluster of well-formed detections with integer coordinates the
\* representative is a well-formed detection inside the cluster's bounding hull:
\* min x1 <= rep.x1 < rep.x2 <= max x2, min y1 <= rep.y1 < rep.y2 <= max y2, and
\* its score is the largest member score.
C16_RepWellFormedInHull ==
    pc = "rep_done" =>
        \A i \in NonEmptyUnions :
            IsCluster(unions[i]) =>
                LET u   == unions[i]
                    rep == union_reps[RepIndex(i)]
                    col(j) == { u[m][j] : m \in 1..Len(u) }
                IN  /\ SetMin(col(1)) <= rep[1]
                    /\ rep[1] < rep[3]
                    /\ rep[3] <= SetMax(col(3))
                    /\ SetMin(col(2)) <= rep[2]
                    /\ rep[2] < rep[4]
                    /\ rep[4] <= SetMax(col(4))
                    /\ rep[5] = SetMax(col(5))

====
